---------------------------- MODULE Spec2Model ----------------------------
(***************************************************************************)
(* A model of the arbitrum-mcp gateway: the chain catalog cache            *)
(* (ChainLookupService), the chain resolver (ArbitrumMCPServer             *)
(* .resolveRpcUrl), the status aggregator (ArbitrumChainClient             *)
(* .getComprehensiveChainStatus), the account client                       *)
(* (EthereumAccountClient), the node client (NitroNodeClient) and the      *)
(* tool handlers of the server.                                            *)
(*                                                                         *)
(* JavaScript strings are sequences of tokens.  A token is an indivisible  *)
(* group of characters, chosen so that no token is a substring of another  *)
(* token or of a concatenation of other tokens; toLowerCase, trim,         *)
(* startsWith and includes are computed on these sequences.                *)
(***************************************************************************)
EXTENDS Integers, Sequences, FiniteSets, TLC

VARIABLES
    scn,            \* which part of the program the behaviour exercises
    chainsData,     \* ChainLookupService.chainsData
    lastFetched,    \* ChainLookupService.lastFetched
    now,            \* Date.now()
    defaultRpcUrl,  \* ArbitrumMCPServer.defaultRpcUrl
    call,           \* one in-progress request per caller
    nCalls,         \* requests issued so far
    lastOk,         \* the last remote answer that fetchChainsData accepted
    aggPc,          \* getComprehensiveChainStatus: "idle", "waiting" or "done"
    ver,            \* getArbOSVersion in progress
    bat,            \* getBatchPostingStatus in progress
    asr,            \* getAssertionStatus in progress
    gas,            \* getGasStatus in progress
    results,        \* the array Promise.allSettled fills
    settled,        \* the sub-queries in the order their promises settled
    composite,      \* what getComprehensiveChainStatus returned
    aggThrew,       \* whether getComprehensiveChainStatus raised
    acct,           \* one EthereumAccountClient operation in progress
    node,           \* one NitroNodeClient operation in progress
    tool            \* one tool call of the server in progress

catalogVars == <<chainsData, lastFetched, now, defaultRpcUrl, call, nCalls, lastOk>>

statusVars == <<aggPc, ver, bat, asr, gas, results, settled, composite, aggThrew>>

vars == <<scn, catalogVars, statusVars, acct, node, tool>>

-----------------------------------------------------------------------------
(* Bounds of the model *)

NumCallers == 2
MaxCalls == 3
MaxTicks == 2

-----------------------------------------------------------------------------
(* Strings *)

Lower(tok) ==
    CASE tok = "Arbitrum" -> "arbitrum"
      [] tok = "One" -> "one"
      [] tok = "Nova" -> "nova"
      [] tok = "X" -> "x"
      [] OTHER -> tok

ToLowerCase(s) == [i \in 1..Len(s) |-> Lower(s[i])]

RECURSIVE TrimStart(_)
TrimStart(s) ==
    IF s # <<>> /\ Head(s) = " " THEN TrimStart(Tail(s)) ELSE s

RECURSIVE TrimEnd(_)
TrimEnd(s) ==
    IF s # <<>> /\ s[Len(s)] = " " THEN TrimEnd(SubSeq(s, 1, Len(s) - 1)) ELSE s

Trim(s) == TrimEnd(TrimStart(s))

StartsWith(s, tok) == Len(s) >= 1 /\ s[1] = tok

Includes(s, sub) ==
    \E i \in 0..(Len(s) - Len(sub)) : SubSeq(s, i + 1, i + Len(sub)) = sub

Digit(d) ==
    CASE d = 0 -> "0" [] d = 1 -> "1" [] d = 2 -> "2" [] d = 3 -> "3" [] d = 4 -> "4"
      [] d = 5 -> "5" [] d = 6 -> "6" [] d = 7 -> "7" [] d = 8 -> "8" [] OTHER -> "9"

RECURSIVE Digits(_)
Digits(n) == IF n < 10 THEN <<Digit(n)>> ELSE Append(Digits(n \div 10), Digit(n % 10))

\* Number.prototype.toString and BigInt.prototype.toString of an integer
NumToString(n) == IF n < 0 THEN <<"-">> \o Digits(-n) ELSE Digits(n)

\* the place of a token's first character among the UTF-16 code units in use
TokenRank(tok) ==
    CASE tok = " " -> 1 [] tok = "-" -> 2 [] tok = "Arbitrum" -> 3 [] tok = "Nova" -> 4
      [] tok = "One" -> 5 [] tok = "X" -> 6 [] tok = "http://" -> 7 [] tok = "legacy" -> 8
      [] tok = "nova" -> 9 [] tok = "one" -> 10 [] tok = "x" -> 11 [] OTHER -> 12

\* a < b for strings, as Array.prototype.sort compares them by default
RECURSIVE Before(_, _)
Before(a, b) ==
    IF b = <<>> THEN FALSE
    ELSE IF a = <<>> THEN TRUE
    ELSE IF TokenRank(a[1]) # TokenRank(b[1]) THEN TokenRank(a[1]) < TokenRank(b[1])
    ELSE Before(Tail(a), Tail(b))

RECURSIVE InsertName(_, _)
InsertName(sorted, x) ==
    IF sorted = <<>> THEN <<x>>
    ELSE IF Before(x, Head(sorted)) THEN <<x>> \o sorted
    ELSE <<Head(sorted)>> \o InsertName(Tail(sorted), x)

\* names.sort()
RECURSIVE SortNames(_)
SortNames(names) ==
    IF names = <<>> THEN <<>>
    ELSE InsertName(SortNames(SubSeq(names, 1, Len(names) - 1)), names[Len(names)])

\* names.join("\n")
RECURSIVE JoinLines(_)
JoinLines(names) ==
    IF names = <<>> THEN <<>>
    ELSE IF Len(names) = 1 THEN names[1]
    ELSE names[1] \o <<"\n">> \o JoinLines(Tail(names))

-----------------------------------------------------------------------------
(* Chain records *)

NoSlug == [has |-> FALSE, s |-> <<>>]
Slug(s) == [has |-> TRUE, s |-> s]

NoBridge == [has |-> FALSE, bridge |-> <<>>, rollup |-> <<>>, sequencerInbox |-> <<>>]
Bridge(tag) ==
    [has |-> TRUE, bridge |-> <<"0xbridge", tag>>, rollup |-> <<"0xrollup", tag>>,
     sequencerInbox |-> <<"0xseqinbox", tag>>]

\* rollup is the legacy flat field; <<>> when the record has none
Chain(id, name, slug, rpc, parent, eb) ==
    [chainId |-> id, name |-> name, slug |-> slug, rpcUrl |-> rpc,
     parentChainId |-> parent, ethBridge |-> eb, rollup |-> <<>>]

ARBITRUM_ONE_CHAIN_ID == 42161
ARBITRUM_NOVA_CHAIN_ID == 42170

getCoreArbitrumChains ==
    << Chain(ARBITRUM_ONE_CHAIN_ID, <<"Arbitrum", " ", "One">>,
             Slug(<<"arbitrum", "-", "one">>),
             <<"https://", "arb1.arbitrum.io/rpc">>, 1, Bridge("one")),
       Chain(ARBITRUM_NOVA_CHAIN_ID, <<"Arbitrum", " ", "Nova">>,
             Slug(<<"arbitrum", "-", "nova">>),
             <<"https://", "nova.arbitrum.io/rpc">>, 1, Bridge("nova")) >>

-----------------------------------------------------------------------------
(* The remote catalog document, as axios hands it to fetchChainsData *)

Absent == [k |-> "absent", items |-> <<>>]
Arr(items) == [k |-> "array", items |-> items]
NotIterable == [k |-> "notIterable", items |-> <<>>]

NetErr == [kind |-> "neterr", mainnet |-> Absent, testnet |-> Absent]
BodyNull == [kind |-> "null", mainnet |-> Absent, testnet |-> Absent]
\* a body that is no JSON object: text that is not JSON, which axios hands over
\* as a string, or a JSON number, string or array without the two keys
BodyText == [kind |-> "text", mainnet |-> Absent, testnet |-> Absent]
Doc(m, t) == [kind |-> "object", mainnet |-> m, testnet |-> t]
NoResp == [kind |-> "none", mainnet |-> Absent, testnet |-> Absent]

CX == Chain(660279, <<"X">>, Slug(<<"x">>), <<"https://", "h1">>,
            ARBITRUM_ONE_CHAIN_ID, Bridge("x"))
COne == Chain(1001, <<"one">>, NoSlug, <<"https://", "h2">>, 1, NoBridge)
CDup == Chain(1002, <<"Arbitrum", " ", "One">>, Slug(<<"x", "-", "x">>),
              <<"https://", "h3">>, 1, NoBridge)
CPad == Chain(1003, <<"X", " ">>, NoSlug, <<"https://", "h4">>, 1, NoBridge)
CSlug == Chain(1004, <<"Nova", "-", "X">>, Slug(<<"One">>), <<"https://", "h5">>,
               ARBITRUM_ONE_CHAIN_ID, Bridge("slug"))
CNoRpc == Chain(1005, <<"x", "-", "x">>, Slug(<<"nova">>), <<>>, 1, NoBridge)
CUrl == Chain(1006, <<"http://", "x">>, NoSlug, <<"https://", "h6">>, 1, NoBridge)
\* an entry that repeats the chainId of CX
CTwin == Chain(660279, <<"zzz">>, NoSlug, <<"https://", "h7">>, 1, NoBridge)
\* an entry in the legacy flat layout
CLegacy ==
    [Chain(1007, <<"legacy">>, NoSlug, <<"https://", "h8">>, 1, NoBridge)
        EXCEPT !.rollup = <<"0xrollup", "legacy">>]

OrbitPool == {CX, COne, CDup, CPad, CSlug, CNoRpc, CUrl}

ShortLists(S) == {<<>>} \cup {<<a>> : a \in S} \cup {<<a, b>> : a \in S, b \in S}

\* the documents the catalogs of the resolver scenario were loaded from
RichDocs ==
    {BodyText}
        \cup {Doc(Arr(m), Absent) : m \in ShortLists(OrbitPool)}
        \cup {Doc(Arr(<<a>>), Arr(<<b>>)) : a \in OrbitPool, b \in {CX, COne}}
        \cup {Doc(Absent, Arr(<<b>>)) : b \in {CX, CSlug}}

\* what axios.get may answer
Responses ==
    IF scn = "resolve"
    THEN {NetErr, BodyNull, Doc(Arr(<<CDup, COne>>), Absent)}
    ELSE IF scn = "session"
    THEN {NetErr, Doc(Arr(<<COne, CLegacy>>), Absent), Doc(Arr(<<CSlug>>), Absent)}
    ELSE {NetErr, BodyText, Doc(Arr(<<COne>>), NotIterable),
          Doc(Arr(<<CX>>), Arr(<<CTwin>>)), Doc(Absent, Arr(<<COne, CX>>))}

-----------------------------------------------------------------------------
(* ChainLookupService *)

CACHE_TTL == 300000

\* [...(data.mainnet || []), ...(data.testnet || [])]: a field of a body that is
\* no object reads as undefined; spreading a truthy non-iterable throws.
FieldOf(resp, f) == IF resp.kind = "object" THEN resp[f] ELSE Absent

SpreadThrows(resp) ==
    \/ resp.kind \in {"neterr", "null"}
    \/ FieldOf(resp, "mainnet").k = "notIterable"
    \/ FieldOf(resp, "testnet").k = "notIterable"

OrbitChainsTestnetFirst(resp) ==
    FieldOf(resp, "testnet").items \o FieldOf(resp, "mainnet").items
OrbitChains(resp) == FieldOf(resp, "mainnet").items \o FieldOf(resp, "testnet").items

fetchChainsDataInPlace(resp) ==
    IF SpreadThrows(resp)
    THEN [threw |-> TRUE, data |-> chainsData, fetched |-> lastFetched]
    ELSE [threw |-> FALSE,
          data |-> (IF Len(chainsData) = 0 THEN getCoreArbitrumChains ELSE chainsData)
                       \o OrbitChains(resp),
          fetched |-> now]

fetchChainsDataKeepFirst(resp) ==
    IF SpreadThrows(resp)
    THEN [threw |-> TRUE, data |-> chainsData, fetched |-> lastFetched]
    ELSE [threw |-> FALSE,
          data |-> IF Len(chainsData) = 0 \/ now - lastFetched > CACHE_TTL
                   THEN getCoreArbitrumChains \o OrbitChains(resp)
                   ELSE chainsData,
          fetched |-> now]

fetchChainsDataKeepStamp(resp) ==
    IF SpreadThrows(resp)
    THEN [threw |-> TRUE, data |-> chainsData, fetched |-> lastFetched]
    ELSE [threw |-> FALSE, data |-> getCoreArbitrumChains \o OrbitChains(resp),
          fetched |-> IF lastFetched = 0 THEN now ELSE lastFetched]

\* fetchChainsData after axios.get has answered: what it throws or stores
fetchChainsData(resp) ==
    IF SpreadThrows(resp)
    THEN [threw |-> TRUE, data |-> chainsData, fetched |-> lastFetched]
    ELSE [threw |-> FALSE, data |-> getCoreArbitrumChains \o OrbitChains(resp),
          fetched |-> now]

NeedsFetchAtTtl == Len(chainsData) = 0 \/ now - lastFetched >= CACHE_TTL

\* the condition of ensureChainsData
NeedsFetch == Len(chainsData) = 0 \/ now - lastFetched > CACHE_TTL

RECURSIVE FindFrom(_, _)
FindFrom(mask, i) ==
    IF i > Len(mask) THEN 0
    ELSE IF mask[i] THEN i ELSE FindFrom(mask, i + 1)

\* Array.prototype.find over a sequence of truth values: the first index, or 0
Find(mask) == FindFrom(mask, 1)

NameIs(c, searchName) == ToLowerCase(c.name) = searchName
SlugIs(c, searchName) == c.slug.has /\ ToLowerCase(c.slug.s) = searchName
NamePartOfForward(c, searchName) == Includes(ToLowerCase(c.name), searchName)
NamePartOf(c, searchName) ==
    \/ Includes(ToLowerCase(c.name), searchName)
    \/ Includes(searchName, ToLowerCase(c.name))

findChainByNameOnePass(data, name) ==
    LET searchName == Trim(ToLowerCase(name))
    IN  Find([i \in 1..Len(data) |-> \/ NameIs(data[i], searchName)
                                      \/ SlugIs(data[i], searchName)
                                      \/ NamePartOf(data[i], searchName)])

findChainByNameSlugFirst(data, name) ==
    LET searchName == Trim(ToLowerCase(name))
        byName == Find([i \in 1..Len(data) |-> NameIs(data[i], searchName)])
        bySlug == Find([i \in 1..Len(data) |-> SlugIs(data[i], searchName)])
        byPart == Find([i \in 1..Len(data) |-> NamePartOf(data[i], searchName)])
    IN  IF bySlug # 0 THEN bySlug
        ELSE IF byName # 0 THEN byName
        ELSE byPart

\* findChainByName after ensureChainsData: the index of the record returned, or 0
findChainByName(data, name) ==
    LET searchName == Trim(ToLowerCase(name))
        byName == Find([i \in 1..Len(data) |-> NameIs(data[i], searchName)])
        bySlug == Find([i \in 1..Len(data) |-> SlugIs(data[i], searchName)])
        byPart == Find([i \in 1..Len(data) |-> NamePartOf(data[i], searchName)])
    IN  IF byName # 0 THEN byName
        ELSE IF bySlug # 0 THEN bySlug
        ELSE byPart

\* findChainById after ensureChainsData
findChainById(data, chainId) ==
    Find([i \in 1..Len(data) |-> data[i].chainId = chainId])

RECURSIVE InsertChain(_, _)
InsertChain(sorted, c) ==
    IF sorted = <<>> THEN <<c>>
    ELSE IF Before(c.name, Head(sorted).name) THEN <<c>> \o sorted
    ELSE <<Head(sorted)>> \o InsertChain(Tail(sorted), c)

RECURSIVE SortChains(_)
SortChains(data) ==
    IF data = <<>> THEN <<>>
    ELSE InsertChain(SortChains(SubSeq(data, 1, Len(data) - 1)), data[Len(data)])

listChainNamesInPlace(data) ==
    [names |-> SortNames([i \in 1..Len(data) |-> data[i].name]), data |-> SortChains(data)]

\* listChainNames after ensureChainsData: chainsData.map(chain => chain.name).sort();
\* names is what it returns, data what chainsData holds afterwards
listChainNames(data) ==
    [names |-> SortNames([i \in 1..Len(data) |-> data[i].name]), data |-> data]

RECURSIVE Filter(_, _)
Filter(data, mask) ==
    IF data = <<>> THEN <<>>
    ELSE (IF Head(mask) THEN <<Head(data)>> ELSE <<>>) \o Filter(Tail(data), Tail(mask))

\* searchChains after ensureChainsData
searchChains(data, query) ==
    LET searchQuery == Trim(ToLowerCase(query))
    IN  Filter(data, [i \in 1..Len(data) |->
                        \/ Includes(ToLowerCase(data[i].name), searchQuery)
                        \/ data[i].slug.has /\ Includes(ToLowerCase(data[i].slug.s), searchQuery)
                        \/ NumToString(data[i].chainId) = searchQuery])

-----------------------------------------------------------------------------
(* ArbitrumMCPServer.resolveRpcUrl *)

NoUrl == [has |-> FALSE, url |-> <<>>]
SomeUrl(u) == [has |-> TRUE, url |-> u]

NoRet == [t |-> "none", url |-> <<>>, recs |-> <<>>, idx |-> 0]
Threw == [t |-> "error", url |-> <<>>, recs |-> <<>>, idx |-> 0]
\* resolveRpcUrl returns a string and nothing else
RetUrl(u) == [t |-> "url", url |-> u, recs |-> <<>>, idx |-> 0]
RetChain(data, i) ==
    [t |-> IF i = 0 THEN "null" ELSE "chain", url |-> <<>>,
     recs |-> IF i = 0 THEN <<>> ELSE <<data[i]>>, idx |-> i]
RetChains(data) == [t |-> "chains", url |-> <<>>, recs |-> data, idx |-> 0]
\* the names listChainNames returns, one per line as list_chains prints them
RetNames(names) == [t |-> "names", url |-> JoinLines(names), recs |-> <<>>, idx |-> 0]

LooksLikeSecureUrl(s) == StartsWith(s, "https://")
LooksLikeUrl(s) == StartsWith(s, "http://") \/ StartsWith(s, "https://")

resolveRpcUrlEntryDefaultFirst(chainNameOrUrl) ==
    IF defaultRpcUrl.has /\ defaultRpcUrl.url # <<>>
    THEN RetUrl(defaultRpcUrl.url)
    ELSE IF chainNameOrUrl = <<>> THEN Threw
    ELSE IF LooksLikeUrl(chainNameOrUrl) THEN RetUrl(chainNameOrUrl)
    ELSE [NoRet EXCEPT !.t = "lookup"]

\* resolveRpcUrl up to its call of findChainByName: "lookup" when it makes the call
resolveRpcUrlEntry(chainNameOrUrl) ==
    IF chainNameOrUrl # <<>>
    THEN IF LooksLikeUrl(chainNameOrUrl)
         THEN RetUrl(chainNameOrUrl)
         ELSE [NoRet EXCEPT !.t = "lookup"]
    ELSE IF defaultRpcUrl.has /\ defaultRpcUrl.url # <<>>
         THEN RetUrl(defaultRpcUrl.url)
         ELSE Threw

\* resolveRpcUrl after findChainByName returned record i of data (0: null)
resolveRpcUrlFound(chainNameOrUrl, data, i) ==
    IF i # 0 /\ data[i].rpcUrl # <<>>
    THEN RetUrl(data[i].rpcUrl)
    ELSE RetUrl(chainNameOrUrl)

resolveRpcUrlRethrows(chainNameOrUrl) == Threw
\* resolveRpcUrl after findChainByName threw: the catch block falls through
resolveRpcUrlCaught(chainNameOrUrl) == RetUrl(chainNameOrUrl)

-----------------------------------------------------------------------------
(* Requests *)

Queries ==
    { <<"X">>, <<"x">>, <<"X", " ">>, <<" ", "x", " ">>, <<"one">>, <<"One">>,
      <<"Arbitrum", " ", "One">>, <<"arbitrum", " ", "one">>, <<"arbitrum", "-", "one">>,
      <<"Arbitrum">>, <<"nova">>, <<"Nova", "-", "X">>, <<"x", "-", "x">>,
      <<" ", "one">>, <<"zzz", "X", " ">>, <<"http://", "x">>, <<"https://", "h1">>, <<"zzz">>, <<" ">>, <<>> }

Req(op, q, id) == [op |-> op, q |-> q, id |-> id]

Requests ==
    IF scn = "resolve"
    THEN {Req(op, q, 0) : op \in {"resolveRpcUrl", "findChainByName"}, q \in Queries}
            \cup {Req("searchChains", q, 0) : q \in {<<"One">>, <<"1", "0", "0", "1">>}}
            \cup {Req("listChainNames", <<>>, 0), Req("getAllChains", <<>>, 0),
                  Req("findChainById", <<>>, 1001)}
    ELSE {Req("findChainById", <<>>, 660279), Req("getAllChains", <<>>, 0)}

ActiveCallers == IF scn = "cache" THEN 1..NumCallers ELSE {1}

Idle ==
    [pc |-> "idle", op |-> "none", q |-> <<>>, id |-> 0, had |-> FALSE, ov |-> FALSE,
     resp |-> NoResp, ret |-> NoRet]

NoLoad == [has |-> FALSE, resp |-> NoResp, at |-> 0, by |-> 0]

StartTime == 2 * CACHE_TTL
TickMs == CACHE_TTL

Fetching == {p \in 1..NumCallers : call[p].pc = "fetching"}

\* a successful load lies at most CACHE_TTL back
LoadedWithinTtl == lastOk.has /\ now - lastOk.at <= CACHE_TTL

-----------------------------------------------------------------------------
(* Catalog requests: one caller runs one request at a time; a request is
   suspended at axios.get and at the await of ensureChainsData *)

\* the result of a catalog operation that reads snapshot data after
\* await ensureChainsData()
Answer(c, data) ==
    CASE c.op = "resolveRpcUrl" -> resolveRpcUrlFound(c.q, data, findChainByName(data, c.q))
      [] c.op = "findChainByName" -> RetChain(data, findChainByName(data, c.q))
      [] c.op = "findChainById" -> RetChain(data, findChainById(data, c.id))
      [] c.op = "listChainNames" -> RetNames(listChainNames(data).names)
      [] c.op = "searchChains" -> RetChains(searchChains(data, c.q))
      [] OTHER -> RetChains(data)

\* what chainsData holds after a catalog operation has read it
SnapshotAfter(c, data) == IF c.op = "listChainNames" THEN listChainNames(data).data ELSE data

\* the result of a catalog operation when ensureChainsData threw
Failure(c) == IF c.op = "resolveRpcUrl" THEN resolveRpcUrlCaught(c.q) ELSE Threw

\* A request arrives and runs to its first upstream call, or to its end when it
\* makes none: resolveRpcUrl may return at once; every catalog operation first
\* runs ensureChainsData, which either issues axios.get (fetchChainsData) and
\* suspends, or returns, and then the operation reads the snapshot in the same
\* turn of the event loop.  The caller has taken the result of its previous
\* request.
Invoke(p, r) ==
    /\ call[p].pc \in {"idle", "done"}
    /\ nCalls < MaxCalls
    /\ nCalls' = nCalls + 1
    /\ LET entry == IF r.op = "resolveRpcUrl" THEN resolveRpcUrlEntry(r.q)
                    ELSE [NoRet EXCEPT !.t = "lookup"]
           c == [Idle EXCEPT !.op = r.op, !.q = r.q, !.id = r.id,
                             !.had = Len(chainsData) > 0]
       IN  IF entry.t # "lookup"
           THEN /\ call' = [call EXCEPT ![p] = [c EXCEPT !.pc = "done", !.ret = entry]]
                /\ UNCHANGED chainsData
           ELSE IF NeedsFetch
           THEN /\ call' = [q \in 1..NumCallers |->
                              IF q = p
                              THEN [c EXCEPT !.pc = "fetching", !.ov = Fetching # {}]
                              ELSE IF q \in Fetching THEN [call[q] EXCEPT !.ov = TRUE]
                              ELSE call[q]]
                /\ UNCHANGED chainsData
           ELSE /\ call' = [call EXCEPT ![p] =
                              [c EXCEPT !.pc = "done", !.ret = Answer(c, chainsData)]]
                /\ chainsData' = SnapshotAfter(c, chainsData)
    /\ UNCHANGED <<lastFetched, now, defaultRpcUrl, lastOk, scn, statusVars, acct, node, tool>>

\* axios.get answers (or fails); fetchChainsData runs to its end and the
\* operation that awaited it reads the snapshot or throws
CompleteFetch(p, resp) ==
    /\ call[p].pc = "fetching"
    /\ LET f == fetchChainsData(resp)
           c == [call[p] EXCEPT !.resp = resp]
       IN  /\ chainsData' = IF f.threw THEN f.data ELSE SnapshotAfter(c, f.data)
           /\ lastFetched' = f.fetched
           /\ lastOk' = IF f.threw THEN lastOk
                        ELSE [has |-> TRUE, resp |-> resp, at |-> now, by |-> p]
           /\ call' = [call EXCEPT ![p] =
                          IF f.threw THEN [c EXCEPT !.pc = "done", !.ret = Failure(c)]
                          ELSE [c EXCEPT !.pc = "done", !.ret = Answer(c, f.data)]]
    /\ UNCHANGED <<now, defaultRpcUrl, nCalls, scn, statusVars, acct, node, tool>>

\* time passes
Tick ==
    /\ now < StartTime + MaxTicks * TickMs
    /\ now' = now + TickMs
    /\ UNCHANGED <<chainsData, lastFetched, defaultRpcUrl, call, nCalls, lastOk, scn,
                   statusVars, acct, node, tool>>

-----------------------------------------------------------------------------
(* JavaScript values of the status reports *)

JStr(str) == [t |-> "string", s |-> str]
JNull == [t |-> "null", s |-> <<>>]
JUndefined == [t |-> "undefined", s |-> <<>>]

\* the JavaScript remainder takes the sign of the dividend
JsRem(a, b) == IF a >= 0 THEN a % b ELSE -((-a) % b)

\* (Number(wei) / 1e9).toFixed(2) of a non-negative integer
GweiFixed2(wei) ==
    LET hundredths == (wei + 5000000) \div 10000000
    IN  Digits(hundredths \div 100) \o <<".">>
            \o <<Digit((hundredths \div 10) % 10), Digit(hundredths % 10)>>

-----------------------------------------------------------------------------
(* ArbitrumChainClient: the reports of the four sub-queries *)

NoReport == [kind |-> "none"]

VersionReport(v) == [kind |-> "version", value |-> v]

BatchReport(secondsAgo, reported, child, backlog, summary) ==
    [kind |-> "batch", lastBatchPostedSecondsAgo |-> secondsAgo,
     lastBlockReported |-> reported, latestChildChainBlockNumber |-> child,
     backlogSize |-> backlog, summary |-> summary]

AssertionReport(created, confirmed, gap, summary) ==
    [kind |-> "assertions", latestCreatedAssertion |-> created,
     latestConfirmedAssertion |-> confirmed, creationConfirmationGap |-> gap,
     summary |-> summary]

GasReport(price, gwei, summary) ==
    [kind |-> "gas", currentGasPrice |-> price, currentGasPriceGwei |-> gwei,
     summary |-> summary]

\* what an upstream call throws: an Error with a message, or some other value
Failures == {[isError |-> TRUE, message |-> "request failed"],
             [isError |-> FALSE, message |-> ""]}

\* error instanceof Error ? error.message : 'Unknown error'
MessageOf(e) == IF e.isError THEN e.message ELSE "Unknown error"

Ok(v) == [ok |-> TRUE, v |-> v, e |-> [isError |-> FALSE, message |-> ""]]
Fail(e) == [ok |-> FALSE, v |-> 0, e |-> e]
OkSeq(v) == [ok |-> TRUE, v |-> v, e |-> [isError |-> FALSE, message |-> ""]]
FailSeq(e) == [ok |-> FALSE, v |-> <<>>, e |-> e]

Outcomes(values) == {Ok(v) : v \in values} \cup {Fail(e) : e \in Failures}
SeqOutcomes(values) == {OkSeq(v) : v \in values} \cup {FailSeq(e) : e \in Failures}

\* the answers of the upstream endpoints
ArbOSVersions == {40}
BatchLogs == {<<>>, <<7>>, <<7, 9>>}
BlockTimestamps == {(StartTime \div 1000) - 3725, (StartTime \div 1000) + 5}
ReportedCounts == {0, 8}
ChildHeights == {5, 12}
AssertionLogs == {<<>>, <<0>>, <<1>>, <<1, 2>>}
GasPrices == {10000000, 1234567890}

\* a JSON-RPC answer to makeRpcCall
Rpc(transport, httpOk, body) ==
    [transport |-> transport, httpOk |-> httpOk, body |-> body, result |-> <<"40">>]

RpcResponses ==
    {Rpc("down", FALSE, "none"), Rpc("up", TRUE, "notjson"), Rpc("up", FALSE, "notjson"),
     Rpc("up", TRUE, "error"), Rpc("up", TRUE, "result"), Rpc("up", FALSE, "neither")}

\* ArbitrumChainClient.makeRpcCall: fetch, response.json(), data.error, data.result
makeRpcCall(resp) ==
    IF resp.transport = "down" \/ resp.body = "notjson" \/ resp.body = "error"
    THEN [threw |-> TRUE, value |-> JUndefined]
    ELSE [threw |-> FALSE,
          value |-> IF resp.body = "result" THEN JStr(resp.result) ELSE JUndefined]

\* getArbOSVersion
VersionFromSdk(version) == VersionReport(JStr(NumToString(version)))
VersionFromRpc(r) ==
    IF r.threw
    THEN VersionReport(JStr(<<"Unknown (RPC does not support ArbOS version queries)">>))
    ELSE VersionReport(r.value)

\* getBatchPostingStatus
BatchNoneAsFresh ==
    BatchReport(0, <<"0">>, <<"0">>, <<"0">>, <<"No batches found in recent blocks">>)
BatchNone ==
    BatchReport(999999, <<"0">>, <<"0">>, <<"0">>, <<"No batches found in recent blocks">>)
BatchErrorZeroed(e) ==
    BatchReport(0, <<"0">>, <<"0">>, <<"0">>,
                <<"Error checking batch posting: ", MessageOf(e)>>)
BatchError(e) ==
    BatchReport(999999, <<"0">>, <<"0">>, <<"0">>,
                <<"Error checking batch posting: ", MessageOf(e)>>)
BatchOk(secondsAgo, reported, child) ==
    LET backlogSize == child - reported
    IN  BatchReport(secondsAgo, NumToString(reported), NumToString(child),
            NumToString(backlogSize),
            <<"Last batch posted ">> \o NumToString(secondsAgo \div 3600) \o <<"h ">>
                \o NumToString(JsRem(secondsAgo, 3600) \div 60)
                \o <<"m ago. Backlog: ">> \o NumToString(backlogSize) \o <<" blocks.">>)

\* getAssertionStatus: logs[logs.length - 1].args?.nodeNum || null, as -1 for null
LatestNode(logs) ==
    IF Len(logs) > 0 /\ logs[Len(logs)] # 0 THEN logs[Len(logs)] ELSE -1

NodeText(n) == IF n = -1 THEN <<"None">> ELSE NumToString(n)
NodeValue(n) == IF n = -1 THEN JNull ELSE JStr(NumToString(n))

AssertionOk(createdLogs, confirmedLogs) ==
    LET created == LatestNode(createdLogs)
        confirmed == LatestNode(confirmedLogs)
        gap == IF created # -1 /\ confirmed # -1 THEN created - confirmed ELSE 0
    IN  AssertionReport(NodeValue(created), NodeValue(confirmed), NumToString(gap),
            <<"Latest created assertion: ">> \o NodeText(created)
                \o <<", Latest confirmed: ">> \o NodeText(confirmed)
                \o <<". Gap: ">> \o NumToString(gap))
AssertionError(e) ==
    AssertionReport(JNull, JNull, <<"0">>, <<"Error checking assertions: ", MessageOf(e)>>)

\* getGasStatus
GasOk(gasPrice) ==
    GasReport(NumToString(gasPrice), GweiFixed2(gasPrice),
        <<"Current gas price: ">> \o GweiFixed2(gasPrice) \o <<" gwei (">>
            \o NumToString(gasPrice) \o <<" wei)">>)
GasError(e) ==
    GasReport(<<"0">>, <<"0">>, <<"Error checking gas price: ", MessageOf(e)>>)

-----------------------------------------------------------------------------
(* ArbitrumChainClient.getComprehensiveChainStatus *)

Subs == 1..4    \* version, batch posting, assertions, gas: the order of the array

Pending == [status |-> "pending", value |-> NoReport]
Fulfilled(v) == [status |-> "fulfilled", value |-> v]

SlotByCompletion(k) == Len(settled) + 1
\* Promise.allSettled stores the outcome of its k-th promise at index k
SlotOf(k) == k

\* the promise of sub-query k is fulfilled with report v
Settle(k, v) ==
    /\ results' = [results EXCEPT ![SlotOf(k)] = Fulfilled(v)]
    /\ settled' = Append(settled, k)

ChainNameArg == <<"X">>

NoComposite == [t |-> "none"]

\* the fallbacks of getComprehensiveChainStatus for a rejected promise
VersionRejected == VersionReport(JStr(<<"Error retrieving ArbOS version">>))
BatchRejected ==
    BatchReport(999999, <<"0">>, <<"0">>, <<"0">>,
                <<"Error retrieving batch posting status">>)
AssertionRejected ==
    AssertionReport(JNull, JNull, <<"0">>, <<"Error retrieving assertion status">>)
GasRejected == GasReport(<<"0">>, <<"0">>, <<"Error retrieving gas status">>)

ValueOr(r, fallback) == IF r.status = "fulfilled" THEN r.value ELSE fallback

\* the object getComprehensiveChainStatus returns
Composite(chainName, res) ==
    [t |-> "status", chainName |-> chainName,
     arbosVersion |-> ValueOr(res[1], VersionRejected),
     batchPosting |-> ValueOr(res[2], BatchRejected),
     assertions |-> ValueOr(res[3], AssertionRejected),
     gasStatus |-> ValueOr(res[4], GasRejected)]

\* primary and rpc record what the two lookups of getArbOSVersion were answered
NoRpc == Rpc("none", FALSE, "none")
IdleVer == [pc |-> "idle", failed |-> FALSE, ret |-> NoReport, primary |-> "none",
            rpc |-> NoRpc]
\* found records whether getLogs returned any batch-delivery log
IdleBat == [pc |-> "idle", failed |-> FALSE, ret |-> NoReport, secondsAgo |-> 0,
            reported |-> 0, found |-> "unknown"]
NoLogs == [st |-> "none", logs |-> <<>>]
IdleAsr == [pc |-> "idle", failed |-> FALSE, ret |-> NoReport, created |-> NoLogs,
            confirmed |-> NoLogs]
IdleGas == [pc |-> "idle", failed |-> FALSE, ret |-> NoReport]

\* The four async functions are called in array order; each runs to its first
\* await (an upstream request), and only then Promise.allSettled is awaited.
StartStatus ==
    /\ aggPc = "idle"
    /\ aggPc' = "waiting"
    /\ ver' = [IdleVer EXCEPT !.pc = "primary"]
    /\ bat' = [IdleBat EXCEPT !.pc = "getBlockNumber"]
    /\ asr' = [IdleAsr EXCEPT !.pc = "getBlockNumber"]
    /\ gas' = [IdleGas EXCEPT !.pc = "getGasPrice"]
    /\ UNCHANGED <<results, settled, composite, aggThrew, scn, catalogVars, acct, node, tool>>

\* getArbOSVersion: the orbit-sdk lookup answers
VerPrimary(o) ==
    /\ ver.pc = "primary"
    /\ IF o.ok
       THEN /\ ver' = [ver EXCEPT !.pc = "done", !.primary = "ok",
                                  !.ret = VersionFromSdk(o.v)]
            /\ Settle(1, VersionFromSdk(o.v))
       ELSE /\ ver' = [ver EXCEPT !.pc = "secondary", !.primary = "failed"]
            /\ UNCHANGED <<results, settled>>
    /\ UNCHANGED <<aggPc, bat, asr, gas, composite, aggThrew, scn, catalogVars, acct, node, tool>>

\* getArbOSVersion: arb_getVersion answers
VerSecondary(resp) ==
    /\ ver.pc = "secondary"
    /\ LET r == makeRpcCall(resp)
       IN  /\ ver' = [ver EXCEPT !.pc = "done", !.failed = r.threw, !.rpc = resp,
                                 !.ret = VersionFromRpc(r)]
           /\ Settle(1, VersionFromRpc(r))
    /\ UNCHANGED <<aggPc, bat, asr, gas, composite, aggThrew, scn, catalogVars, acct, node, tool>>

\* getBatchPostingStatus: any upstream failure lands in the catch block
BatFail(e) ==
    /\ bat' = [bat EXCEPT !.pc = "done", !.failed = TRUE, !.ret = BatchError(e)]
    /\ Settle(2, BatchError(e))

BatBlockNumber(o) ==
    /\ bat.pc = "getBlockNumber"
    /\ IF o.ok
       THEN bat' = [bat EXCEPT !.pc = "getLogs"] /\ UNCHANGED <<results, settled>>
       ELSE BatFail(o.e)
    /\ UNCHANGED <<aggPc, ver, asr, gas, composite, aggThrew, scn, catalogVars, acct, node, tool>>

BatGetLogs(o) ==
    /\ bat.pc = "getLogs"
    /\ IF ~o.ok THEN BatFail(o.e)
       ELSE IF Len(o.v) = 0
       THEN /\ bat' = [bat EXCEPT !.pc = "done", !.found = "none", !.ret = BatchNone]
            /\ Settle(2, BatchNone)
       ELSE /\ bat' = [bat EXCEPT !.pc = "getBlock", !.found = "some"]
            /\ UNCHANGED <<results, settled>>
    /\ UNCHANGED <<aggPc, ver, asr, gas, composite, aggThrew, scn, catalogVars, acct, node, tool>>

BatGetBlock(o) ==
    /\ bat.pc = "getBlock"
    /\ IF o.ok
       THEN /\ bat' = [bat EXCEPT !.pc = "readContract",
                                  !.secondsAgo = (now \div 1000) - o.v]
            /\ UNCHANGED <<results, settled>>
       ELSE BatFail(o.e)
    /\ UNCHANGED <<aggPc, ver, asr, gas, composite, aggThrew, scn, catalogVars, acct, node, tool>>

BatReadContract(o) ==
    /\ bat.pc = "readContract"
    /\ IF o.ok
       THEN /\ bat' = [bat EXCEPT !.pc = "childBlockNumber", !.reported = o.v]
            /\ UNCHANGED <<results, settled>>
       ELSE BatFail(o.e)
    /\ UNCHANGED <<aggPc, ver, asr, gas, composite, aggThrew, scn, catalogVars, acct, node, tool>>

BatChildBlockNumber(o) ==
    /\ bat.pc = "childBlockNumber"
    /\ IF o.ok
       THEN /\ bat' = [bat EXCEPT !.pc = "done",
                                  !.ret = BatchOk(bat.secondsAgo, bat.reported, o.v)]
            /\ Settle(2, BatchOk(bat.secondsAgo, bat.reported, o.v))
       ELSE BatFail(o.e)
    /\ UNCHANGED <<aggPc, ver, asr, gas, composite, aggThrew, scn, catalogVars, acct, node, tool>>

\* getAssertionStatus
AsrFail(e) ==
    /\ asr' = [asr EXCEPT !.pc = "done", !.failed = TRUE, !.ret = AssertionError(e)]
    /\ Settle(3, AssertionError(e))

AsrBlockNumber(o) ==
    /\ asr.pc = "getBlockNumber"
    /\ IF o.ok
       THEN /\ asr' = [asr EXCEPT !.pc = "getLogs",
                                  !.created = [st |-> "pending", logs |-> <<>>],
                                  !.confirmed = [st |-> "pending", logs |-> <<>>]]
            /\ UNCHANGED <<results, settled>>
       ELSE AsrFail(o.e)
    /\ UNCHANGED <<aggPc, ver, bat, gas, composite, aggThrew, scn, catalogVars, acct, node, tool>>

\* one of the two getLogs of Promise.all answers: the first failure rejects the
\* join, the second success fulfils it
AsrGetLogs(which, o) ==
    /\ asr.pc = "getLogs"
    /\ asr[which].st = "pending"
    /\ LET other == IF which = "created" THEN "confirmed" ELSE "created"
           createdLogs == IF which = "created" THEN o.v ELSE asr.created.logs
           confirmedLogs == IF which = "confirmed" THEN o.v ELSE asr.confirmed.logs
       IN  IF ~o.ok THEN AsrFail(o.e)
           ELSE IF asr[other].st = "ok"
           THEN /\ asr' = [asr EXCEPT !.pc = "done", ![which] = [st |-> "ok", logs |-> o.v],
                                      !.ret = AssertionOk(createdLogs, confirmedLogs)]
                /\ Settle(3, AssertionOk(createdLogs, confirmedLogs))
           ELSE /\ asr' = [asr EXCEPT ![which] = [st |-> "ok", logs |-> o.v]]
                /\ UNCHANGED <<results, settled>>
    /\ UNCHANGED <<aggPc, ver, bat, gas, composite, aggThrew, scn, catalogVars, acct, node, tool>>

\* getGasStatus
GasPrice(o) ==
    /\ gas.pc = "getGasPrice"
    /\ LET v == IF o.ok THEN GasOk(o.v) ELSE GasError(o.e)
       IN  /\ gas' = [gas EXCEPT !.pc = "done", !.failed = ~o.ok, !.ret = v]
           /\ Settle(4, v)
    /\ UNCHANGED <<aggPc, ver, bat, asr, composite, aggThrew, scn, catalogVars, acct, node, tool>>

\* every promise has settled: getComprehensiveChainStatus resumes and returns
Join ==
    /\ aggPc = "waiting"
    /\ \A k \in Subs : results[k].status # "pending"
    /\ aggPc' = "done"
    /\ composite' = Composite(ChainNameArg, results)
    /\ aggThrew' = FALSE
    /\ UNCHANGED <<ver, bat, asr, gas, results, settled, scn, catalogVars, acct, node, tool>>

InitStatusVars ==
    /\ aggPc = "idle"
    /\ ver = IdleVer
    /\ bat = IdleBat
    /\ asr = IdleAsr
    /\ gas = IdleGas
    /\ results = [k \in Subs |-> Pending]
    /\ settled = <<>>
    /\ composite = NoComposite
    /\ aggThrew = FALSE

NextStatus ==
    \/ StartStatus
    \/ \E o \in Outcomes(ArbOSVersions) : VerPrimary(o)
    \/ \E resp \in RpcResponses : VerSecondary(resp)
    \/ \E o \in Outcomes({20000}) : BatBlockNumber(o)
    \/ \E o \in SeqOutcomes(BatchLogs) : BatGetLogs(o)
    \/ \E o \in Outcomes(BlockTimestamps) : BatGetBlock(o)
    \/ \E o \in Outcomes(ReportedCounts) : BatReadContract(o)
    \/ \E o \in Outcomes(ChildHeights) : BatChildBlockNumber(o)
    \/ \E o \in Outcomes({60000}) : AsrBlockNumber(o)
    \/ \E which \in {"created", "confirmed"} :
          \E o \in SeqOutcomes(AssertionLogs) : AsrGetLogs(which, o)
    \/ \E o \in Outcomes(GasPrices) : GasPrice(o)
    \/ Join

-----------------------------------------------------------------------------
(* EthereumAccountClient.  Balances are counted in units of 10^11 wei, a
   tenth of the last digit toFixed(6) keeps, so that 10^18 wei are
   UnitsPerEther units. *)

UnitsPerEther == 10000000

\* an address is "0x" followed by one token; "hex40" stands for 40 hex digits
Addresses == {<<"0x", "hex40">>, <<"0x", "invalid">>, <<"0x">>, <<>>}

Balances ==
    {0, 1, 5, 9, 200000, 10000000, 10100000, 12345670, 12345675, 12345678, 15000000,
     19999999, 100000000, 100000004, 1000000000, 1000001000}

\* the result field of a JSON-RPC answer: a hex quantity, "0x", or none
HexResult(n) == [t |-> "hex", n |-> n]
\* a hex quantity of 10^39 wei or more: 1 is 2^256 - 9, 2 is 10^48 + 1
HugeHexResult(k) == [t |-> "hugehex", n |-> k]
EmptyHex == [t |-> "emptyhex", n |-> 0]
NoResult == [t |-> "undefined", n |-> 0]

AcctRpc(transport, httpOk, body, result) ==
    [transport |-> transport, httpOk |-> httpOk, body |-> body, result |-> result]

NoAcctRpc == AcctRpc("none", FALSE, "none", NoResult)

AcctRpcResponses ==
    {AcctRpc("down", FALSE, "none", NoResult), AcctRpc("up", TRUE, "notjson", NoResult),
     AcctRpc("up", TRUE, "error", NoResult), AcctRpc("up", FALSE, "error", NoResult),
     AcctRpc("up", TRUE, "result", EmptyHex), AcctRpc("up", TRUE, "neither", NoResult),
     AcctRpc("up", FALSE, "neither", NoResult)}
        \cup {AcctRpc("up", TRUE, "result", HexResult(n)) : n \in Balances}
        \cup {AcctRpc("up", TRUE, "result", HugeHexResult(k)) : k \in {1, 2}}

\* EthereumAccountClient.makeRpcCall: fetch, response.json(), data.error, data.result
makeRpcCallOfAccount(resp) ==
    IF resp.transport = "down" \/ resp.body = "notjson" \/ resp.body = "error"
    THEN [threw |-> TRUE, value |-> NoResult]
    ELSE [threw |-> FALSE, value |-> IF resp.body = "result" THEN resp.result ELSE NoResult]

AcctThrew == [t |-> "error", n |-> 0, s |-> <<>>]
AcctWei(v) == [t |-> v.t, n |-> v.n, s |-> <<>>]
AcctEther(str) == [t |-> "ether", n |-> 0, s |-> str]

\* the micro-ether counts Number(wei) / 1e18 may round to in toFixed(6): a
\* value halfway between two counts goes to either, as its double falls
ToFixed6(units) ==
    LET below == units \div 10
    IN  IF units % 10 < 5 THEN {below}
        ELSE IF units % 10 > 5 THEN {below + 1}
        ELSE {below, below + 1}

\* the text toFixed(6) prints for a count of micro-ether
Fixed6Text(micro) ==
    LET frac == micro % 1000000
    IN  Digits(micro \div 1000000) \o <<".">>
            \o << Digit(frac \div 100000), Digit((frac \div 10000) % 10),
                  Digit((frac \div 1000) % 10), Digit((frac \div 100) % 10),
                  Digit((frac \div 10) % 10), Digit(frac % 10) >>

\* what toFixed(6) prints for Number(wei) / 1e18 of 10^21 or more: the
\* number's own text, in exponent notation
ExponentText(k) ==
    IF k = 1
    THEN <<"1", ".", "1", "5", "7", "9", "2", "0", "8", "9", "2", "3", "7", "3", "1", "6",
           "2", "e+", "5", "9">>
    ELSE <<"1", "e+", "3", "0">>

AllZeros(str, from) == from <= Len(str) /\ \A k \in from..Len(str) : str[k] = "0"

\* str.replace(/\.?0+$/, ''): the leftmost place from which the rest is an
\* optional point and then zeros only
ReplaceDotZeros(str) ==
    LET hits == {p \in 1..Len(str) :
                    \/ AllZeros(str, p)
                    \/ str[p] = "." /\ AllZeros(str, p + 1)}
    IN  IF hits = {} THEN str
        ELSE SubSeq(str, 1, (CHOOSE p \in hits : \A r \in hits : p <= r) - 1)

\* what getBalanceInEther may return for a balance
getBalanceInEther(wei) ==
    IF wei.t = "hugehex" THEN {ReplaceDotZeros(ExponentText(wei.n))}
    ELSE IF wei.n % UnitsPerEther = 0
    THEN {Digits(wei.n \div UnitsPerEther)}
    ELSE {ReplaceDotZeros(Fixed6Text(micro)) : micro \in ToFixed6(wei.n)}

IdleAcct == [pc |-> "idle", op |-> "none", address |-> <<>>, rpc |-> NoAcctRpc,
             ret |-> [t |-> "none", n |-> 0, s |-> <<>>]]

\* getBalance or getBalanceInEther is called and sends eth_getBalance
AcctInvoke(op, address) ==
    /\ acct.pc = "idle"
    /\ acct' = [IdleAcct EXCEPT !.pc = "eth_getBalance", !.op = op, !.address = address]
    /\ UNCHANGED <<scn, catalogVars, statusVars, node, tool>>

\* eth_getBalance is answered and the operation runs to its end
AcctAnswer(resp) ==
    /\ acct.pc = "eth_getBalance"
    /\ LET r == makeRpcCallOfAccount(resp)
       IN  \E ret \in IF r.threw THEN {AcctThrew}
                      ELSE IF acct.op = "getBalance" THEN {AcctWei(r.value)}
                      ELSE IF r.value.t \notin {"hex", "hugehex"} THEN {AcctThrew}
                      ELSE {AcctEther(str) : str \in getBalanceInEther(r.value)} :
               acct' = [acct EXCEPT !.pc = "done", !.rpc = resp, !.ret = ret]
    /\ UNCHANGED <<scn, catalogVars, statusVars, node, tool>>

NextAccount ==
    \/ \E op \in {"getBalance", "getBalanceInEther"} :
          \E address \in Addresses : AcctInvoke(op, address)
    \/ \E resp \in AcctRpcResponses : AcctAnswer(resp)

-----------------------------------------------------------------------------
(* NitroNodeClient: getSyncStatus and validateMessageNumber *)

\* a field of a JSON object that holds a hex quantity, or is missing
NoField == [has |-> FALSE, n |-> 0]
HexField(n) == [has |-> TRUE, n |-> n]

\* the result field of a JSON-RPC answer
NodeResult(t, cur, high, valid) ==
    [t |-> t, currentBlock |-> cur, highestBlock |-> high, valid |-> valid]
NoNodeResult == NodeResult("undefined", NoField, NoField, FALSE)
NotSyncing == NodeResult("false", NoField, NoField, FALSE)
SyncingObject(cur, high) == NodeResult("object", cur, high, FALSE)
HexQuantity(n) == NodeResult("hex", HexField(n), NoField, FALSE)
Verdict(valid) == NodeResult("verdict", NoField, NoField, valid)

NodeRpc(transport, httpOk, body, result) ==
    [transport |-> transport, httpOk |-> httpOk, body |-> body, result |-> result]

BlockFields == {NoField, HexField(0), HexField(5), HexField(10)}

\* what the endpoint may answer to a method
NodeRpcResponses(method) ==
    {NodeRpc("down", FALSE, "none", NoNodeResult), NodeRpc("up", FALSE, "neither", NoNodeResult),
     NodeRpc("up", TRUE, "notjson", NoNodeResult), NodeRpc("up", TRUE, "error", NoNodeResult),
     NodeRpc("up", TRUE, "neither", NoNodeResult)}
        \cup {NodeRpc("up", TRUE, "result", r) :
                r \in CASE method = "eth_syncing" ->
                             {NotSyncing} \cup {SyncingObject(c, h) : c, h \in BlockFields}
                        [] method = "eth_blockNumber" ->
                             {HexQuantity(f.n) : f \in BlockFields \ {NoField}}
                        [] OTHER -> {Verdict(TRUE), Verdict(FALSE)}}

makeRpcCallOfNodeAnyStatus(resp) ==
    IF resp.transport = "down" \/ resp.body \in {"notjson", "error"}
    THEN [threw |-> TRUE, value |-> NoNodeResult]
    ELSE [threw |-> FALSE,
          value |-> IF resp.body = "result" THEN resp.result ELSE NoNodeResult]

\* NitroNodeClient.makeRpcCall: fetch, response.ok, response.json(), data.error
makeRpcCallOfNode(resp) ==
    IF resp.transport = "down" \/ ~resp.httpOk \/ resp.body \in {"notjson", "error"}
    THEN [threw |-> TRUE, value |-> NoNodeResult]
    ELSE [threw |-> FALSE,
          value |-> IF resp.body = "result" THEN resp.result ELSE NoNodeResult]

\* JavaScript numbers: NaN, or a ratio of integers
NaN == [nan |-> TRUE, num |-> 0, den |-> 1]
Num(n) == [nan |-> FALSE, num |-> n, den |-> 1]
Ratio(num, den) == [nan |-> FALSE, num |-> num, den |-> den]

\* parseInt(field, 16)
ParseInt16(field) == IF field.has THEN Num(field.n) ELSE NaN

\* highest > 0 ? (current / highest) * 100 : 0
SyncProgress(current, highest) ==
    IF ~highest.nan /\ highest.num > 0
    THEN IF current.nan THEN NaN ELSE Ratio(current.num * 100, highest.num)
    ELSE Num(0)

SyncStatus(current, highest, isSyncing, progress, error) ==
    [t |-> "sync", currentBlock |-> current, highestBlock |-> highest,
     isSyncing |-> isSyncing, syncProgress |-> progress, valid |-> FALSE, error |-> error]

ValidateBlockResult(valid, error) ==
    [t |-> "validate", currentBlock |-> NaN, highestBlock |-> NaN, isSyncing |-> FALSE,
     syncProgress |-> NaN, valid |-> valid, error |-> error]

NoNodeRet ==
    [t |-> "none", currentBlock |-> NaN, highestBlock |-> NaN, isSyncing |-> FALSE,
     syncProgress |-> NaN, valid |-> FALSE, error |-> "none"]

\* the try block of getSyncStatus once both calls have returned: reading a
\* property of undefined throws
SyncFromAnswers(syncResponse, latestBlock) ==
    IF syncResponse.t = "false"
    THEN [threw |-> FALSE,
          ret |-> SyncStatus(ParseInt16(latestBlock.currentBlock),
                             ParseInt16(latestBlock.currentBlock), FALSE, Num(100), "none")]
    ELSE IF syncResponse.t = "undefined"
    THEN [threw |-> TRUE, ret |-> NoNodeRet]
    ELSE LET current == ParseInt16(syncResponse.currentBlock)
             highest == ParseInt16(syncResponse.highestBlock)
         IN  [threw |-> FALSE,
              ret |-> SyncStatus(current, highest, TRUE,
                                 SyncProgress(current, highest), "none")]

\* the catch block of getSyncStatus once its eth_blockNumber call has settled
SyncFallback(r) ==
    IF r.threw
    THEN SyncStatus(Num(0), Num(0), FALSE, Num(0), "debug API")
    ELSE SyncStatus(ParseInt16(r.value.currentBlock), ParseInt16(r.value.currentBlock),
                    FALSE, Num(100), "block number only")

\* validateMessageNumber once its call has settled: result.valid || true
ValidateFromAnswer(r) ==
    IF r.threw \/ r.value.t = "undefined"
    THEN ValidateBlockResult(FALSE, "not supported")
    ELSE ValidateBlockResult(r.value.valid \/ TRUE, "none")

IdleNode == [pc |-> "idle", op |-> "none", calls |-> <<>>, ret |-> NoNodeRet]

Called(method, resp) == [method |-> method, resp |-> resp]

\* getSyncStatus or validateMessageNumber is called and sends its first request
NodeInvoke(op) ==
    /\ node.pc = "idle"
    /\ node' = [IdleNode EXCEPT !.op = op,
                   !.pc = IF op = "getSyncStatus" THEN "eth_syncing" ELSE "validate"]
    /\ UNCHANGED <<scn, catalogVars, statusVars, acct, tool>>

\* eth_syncing settles: on failure the catch block sends eth_blockNumber
SyncSyncing(resp) ==
    /\ node.pc = "eth_syncing"
    /\ node' = [node EXCEPT !.calls = Append(@, Called("eth_syncing", resp)),
                   !.pc = IF makeRpcCallOfNode(resp).threw THEN "fallback"
                          ELSE "eth_blockNumber"]
    /\ UNCHANGED <<scn, catalogVars, statusVars, acct, tool>>

\* the eth_blockNumber call of the try block settles
SyncBlockNumber(resp) ==
    /\ node.pc = "eth_blockNumber"
    /\ LET r == makeRpcCallOfNode(resp)
           out == SyncFromAnswers(makeRpcCallOfNode(node.calls[1].resp).value, r.value)
           caught == r.threw \/ out.threw
       IN  node' = [node EXCEPT !.calls = Append(@, Called("eth_blockNumber", resp)),
                       !.pc = IF caught THEN "fallback" ELSE "done",
                       !.ret = IF caught THEN @ ELSE out.ret]
    /\ UNCHANGED <<scn, catalogVars, statusVars, acct, tool>>

\* the eth_blockNumber call of the catch block settles
SyncCatch(resp) ==
    /\ node.pc = "fallback"
    /\ node' = [node EXCEPT !.calls = Append(@, Called("eth_blockNumber", resp)),
                   !.pc = "done", !.ret = SyncFallback(makeRpcCallOfNode(resp))]
    /\ UNCHANGED <<scn, catalogVars, statusVars, acct, tool>>

\* arbdebug_validateMessageNumber settles
ValidateAnswer(resp) ==
    /\ node.pc = "validate"
    /\ node' = [node EXCEPT !.calls = Append(@, Called("arbdebug_validateMessageNumber", resp)),
                   !.pc = "done", !.ret = ValidateFromAnswer(makeRpcCallOfNode(resp))]
    /\ UNCHANGED <<scn, catalogVars, statusVars, acct, tool>>

NextNode ==
    \/ \E op \in {"getSyncStatus", "validateMessageNumber"} : NodeInvoke(op)
    \/ \E resp \in NodeRpcResponses("eth_syncing") : SyncSyncing(resp)
    \/ \E resp \in NodeRpcResponses("eth_blockNumber") : SyncBlockNumber(resp)
    \/ \E resp \in NodeRpcResponses("eth_blockNumber") : SyncCatch(resp)
    \/ \E resp \in NodeRpcResponses("arbdebug_validateMessageNumber") : ValidateAnswer(resp)

-----------------------------------------------------------------------------
(* Tool handlers of ArbitrumMCPServer: set_rpc_url, clear_rpc_url, node_health,
   get_rollup_address and comprehensive_chain_status.  A string argument is
   NoUrl when it is not given and SomeUrl(text) when it is. *)

\* the truth value of a string argument: undefined and "" are falsy
Truthy(arg) == arg.has /\ arg.url # <<>>

\* (args.rpcUrl as string) || (args.chainName as string)
RpcUrlOrChainName(rpcUrl, chainName) == IF Truthy(rpcUrl) THEN rpcUrl.url ELSE chainName.url

NoOut ==
    [t |-> "none", text |-> <<>>, rpcUrl |-> <<>>, chainName |-> <<>>, parentRpcUrl |-> <<>>,
     sequencerInboxAddress |-> <<>>, bridgeAddress |-> <<>>, rollupAddress |-> <<>>]
ToolThrew == [NoOut EXCEPT !.t = "error"]

\* new NitroNodeClient(rpcUrl), which the handler then calls
ClientFor(rpcUrl) == [NoOut EXCEPT !.t = "client", !.rpcUrl = rpcUrl]

\* the answer of get_rollup_address for chainInfo
RollupAnswer(info) ==
    IF info.idx = 0 THEN [NoOut EXCEPT !.t = "not found"]
    ELSE IF info.recs[1].rollup = <<>>
    THEN [NoOut EXCEPT !.t = "not available", !.text = info.recs[1].name]
    ELSE [NoOut EXCEPT !.t = "rollup", !.text = info.recs[1].rollup]

\* the arguments comprehensive_chain_status passes to
\* getComprehensiveChainStatus, with the URL its client was built for
StatusCall(rpcUrl, chainName, info) ==
    LET found == info.idx # 0
        eb == IF found THEN info.recs[1].ethBridge ELSE NoBridge
    IN  [t |-> "status", text |-> <<>>, rpcUrl |-> rpcUrl,
         chainName |-> IF Truthy(chainName) THEN chainName.url
                       ELSE IF found /\ info.recs[1].name # <<>> THEN info.recs[1].name
                       ELSE <<"Unknown Chain">>,
         parentRpcUrl |-> IF found /\ info.recs[1].parentChainId = 1
                          THEN <<"https://", "eth.llamarpc.com">>
                          ELSE <<"https://", "arb1.arbitrum.io/rpc">>,
         sequencerInboxAddress |-> eb.sequencerInbox,
         bridgeAddress |-> eb.bridge,
         rollupAddress |-> eb.rollup]

\* the snapshot a lookup read, or none when its ensureChainsData threw
NotSeen == [ok |-> FALSE, data |-> <<>>]
Seen(data) == [ok |-> TRUE, data |-> data]

IdleTool ==
    [pc |-> "idle", name |-> "none", rpcUrl |-> NoUrl, chainName |-> NoUrl, def0 |-> NoUrl,
     usedDefault |-> FALSE, q |-> <<>>, url |-> <<>>, info |-> NoRet, seen1 |-> NotSeen,
     seen2 |-> NotSeen, fetches |-> 0, out |-> NoOut]

ToolNames == {"node_health", "get_rollup_address", "comprehensive_chain_status"}
ToolRpcUrls == {NoUrl, SomeUrl(<<>>), SomeUrl(<<"https://", "h9">>)}
ToolChainNames ==
    {NoUrl, SomeUrl(<<>>), SomeUrl(<<"one">>), SomeUrl(<<"Arbitrum", " ", "One">>),
     SomeUrl(<<"legacy">>), SomeUrl(<<"zzz">>)}
DefaultUrls == {<<>>, <<"https://", "d1">>, <<"https://", "d2">>}

\* what a handler does with chainInfo once findChainByName has returned
ToolFinish(t, data) ==
    LET info == RetChain(data, findChainByName(data, t.chainName.url))
    IN  [t EXCEPT !.pc = "done", !.info = info, !.seen2 = Seen(data),
                  !.out = IF t.name = "get_rollup_address" THEN RollupAnswer(info)
                          ELSE StatusCall(t.url, t.chainName, info)]

\* case "set_rpc_url"
SetRpcUrl(rpcUrl) ==
    /\ defaultRpcUrl # SomeUrl(rpcUrl)
    /\ defaultRpcUrl' = SomeUrl(rpcUrl)
    /\ UNCHANGED <<chainsData, lastFetched, now, call, nCalls, lastOk, scn, statusVars,
                   acct, node, tool>>

\* case "clear_rpc_url"
ClearRpcUrl ==
    /\ defaultRpcUrl # NoUrl
    /\ defaultRpcUrl' = NoUrl
    /\ UNCHANGED <<chainsData, lastFetched, now, call, nCalls, lastOk, scn, statusVars,
                   acct, node, tool>>

\* a tool call arrives and runs to its first await: get_rollup_address goes
\* straight to findChainByName, the other tools to resolveRpcUrl
ToolStart(name, rpcUrl, chainName) ==
    /\ tool.pc \in {"idle", "done"}
    /\ nCalls < MaxCalls
    /\ name = "get_rollup_address" => chainName.has
    /\ nCalls' = nCalls + 1
    /\ LET q == RpcUrlOrChainName(rpcUrl, chainName)
           entry == resolveRpcUrlEntry(q)
           t == [IdleTool EXCEPT !.name = name, !.rpcUrl = rpcUrl, !.chainName = chainName,
                                 !.def0 = defaultRpcUrl, !.q = q]
       IN  tool' =
             IF name = "get_rollup_address"
             THEN IF NeedsFetch THEN [t EXCEPT !.pc = "info_fetch", !.fetches = 1]
                  ELSE ToolFinish(t, chainsData)
             ELSE IF entry.t = "error" THEN [t EXCEPT !.pc = "done", !.out = ToolThrew]
             ELSE IF entry.t = "url"
             THEN [t EXCEPT !.pc = "resolved", !.url = entry.url, !.usedDefault = (q = <<>>)]
             ELSE IF NeedsFetch THEN [t EXCEPT !.pc = "resolve_fetch", !.fetches = 1]
             ELSE [t EXCEPT !.pc = "resolved", !.seen1 = Seen(chainsData),
                            !.url = resolveRpcUrlFound(q, chainsData,
                                                       findChainByName(chainsData, q)).url]
    /\ UNCHANGED <<chainsData, lastFetched, now, defaultRpcUrl, call, lastOk, scn,
                   statusVars, acct, node>>

\* axios.get settles for the findChainByName of resolveRpcUrl
ToolResolveFetched(resp) ==
    /\ tool.pc = "resolve_fetch"
    /\ LET f == fetchChainsData(resp)
       IN  /\ chainsData' = f.data
           /\ lastFetched' = f.fetched
           /\ lastOk' = IF f.threw THEN lastOk
                        ELSE [has |-> TRUE, resp |-> resp, at |-> now, by |-> 1]
           /\ tool' = IF f.threw
                      THEN [tool EXCEPT !.pc = "resolved",
                                        !.url = resolveRpcUrlCaught(tool.q).url]
                      ELSE [tool EXCEPT !.pc = "resolved", !.seen1 = Seen(f.data),
                                        !.url = resolveRpcUrlFound(tool.q, f.data,
                                                    findChainByName(f.data, tool.q)).url]
    /\ UNCHANGED <<now, defaultRpcUrl, call, nCalls, scn, statusVars, acct, node>>

\* the handler resumes after await resolveRpcUrl: node_health builds its
\* client; comprehensive_chain_status looks the chain name up again
ToolResume ==
    /\ tool.pc = "resolved"
    /\ tool' = IF tool.name = "node_health"
               THEN [tool EXCEPT !.pc = "done", !.out = ClientFor(tool.url)]
               ELSE IF ~Truthy(tool.chainName)
               THEN [tool EXCEPT !.pc = "done",
                                 !.out = StatusCall(tool.url, tool.chainName, RetChain(<<>>, 0))]
               ELSE IF NeedsFetch
               THEN [tool EXCEPT !.pc = "info_fetch", !.fetches = @ + 1]
               ELSE ToolFinish(tool, chainsData)
    /\ UNCHANGED <<chainsData, lastFetched, now, defaultRpcUrl, call, nCalls, lastOk, scn,
                   statusVars, acct, node>>

\* axios.get settles for the handler's own findChainByName
ToolInfoFetched(resp) ==
    /\ tool.pc = "info_fetch"
    /\ LET f == fetchChainsData(resp)
       IN  /\ chainsData' = f.data
           /\ lastFetched' = f.fetched
           /\ lastOk' = IF f.threw THEN lastOk
                        ELSE [has |-> TRUE, resp |-> resp, at |-> now, by |-> 1]
           /\ tool' = IF f.threw THEN [tool EXCEPT !.pc = "done", !.out = ToolThrew]
                      ELSE ToolFinish(tool, f.data)
    /\ UNCHANGED <<now, defaultRpcUrl, call, nCalls, scn, statusVars, acct, node>>

NextSession ==
    \/ \E rpcUrl \in DefaultUrls : SetRpcUrl(rpcUrl)
    \/ ClearRpcUrl
    \/ \E name \in ToolNames : \E rpcUrl \in ToolRpcUrls : \E chainName \in ToolChainNames :
          ToolStart(name, rpcUrl, chainName)
    \/ \E resp \in Responses : ToolResolveFetched(resp)
    \/ ToolResume
    \/ \E resp \in Responses : ToolInfoFetched(resp)
    \/ Tick

-----------------------------------------------------------------------------
(* Specifications *)

InitCatalog ==
    /\ chainsData = <<>>
    /\ lastFetched = 0
    /\ now = StartTime
    /\ defaultRpcUrl = NoUrl
    /\ call = [p \in 1..NumCallers |-> Idle]
    /\ nCalls = 0
    /\ lastOk = NoLoad

NextCatalog ==
    \/ \E p \in ActiveCallers : \E r \in Requests : Invoke(p, r)
    \/ \E p \in ActiveCallers : \E resp \in Responses : CompleteFetch(p, resp)
    \/ Tick

\* concurrent catalog operations against the registry cache, from a cold start
InitCache == scn = "cache" /\ InitCatalog /\ InitStatusVars /\ acct = IdleAcct /\ node = IdleNode /\ tool = IdleTool
SpecCache == InitCache /\ [][NextCatalog]_vars

\* one client resolving names; the snapshot was loaded from any of RichDocs
InitResolve ==
    /\ scn = "resolve"
    /\ InitStatusVars
    /\ acct = IdleAcct /\ node = IdleNode /\ tool = IdleTool
    /\ now = StartTime
    /\ defaultRpcUrl = NoUrl
    /\ call = [p \in 1..NumCallers |-> Idle]
    /\ nCalls = 0
    /\ \/ chainsData = <<>> /\ lastFetched = 0 /\ lastOk = NoLoad
       \/ \E d \in RichDocs :
             /\ chainsData = getCoreArbitrumChains \o OrbitChains(d)
             /\ lastFetched = StartTime
             /\ lastOk = [has |-> TRUE, resp |-> d, at |-> StartTime, by |-> 1]
SpecResolve == InitResolve /\ [][NextCatalog]_vars

\* one run of getComprehensiveChainStatus
InitStatus == scn = "status" /\ InitCatalog /\ InitStatusVars /\ acct = IdleAcct /\ node = IdleNode /\ tool = IdleTool
SpecStatus == InitStatus /\ [][NextStatus]_vars

\* one operation of EthereumAccountClient
InitAccount == scn = "account" /\ InitCatalog /\ InitStatusVars /\ acct = IdleAcct /\ node = IdleNode /\ tool = IdleTool
SpecAccount == InitAccount /\ [][NextAccount]_vars

\* one operation of NitroNodeClient
InitNode == scn = "node" /\ InitCatalog /\ InitStatusVars /\ acct = IdleAcct /\ node = IdleNode /\ tool = IdleTool
SpecNode == InitNode /\ [][NextNode]_vars

\* one client calling tools of the server, from a cold start
InitSession ==
    scn = "session" /\ InitCatalog /\ InitStatusVars /\ acct = IdleAcct /\ node = IdleNode
        /\ tool = IdleTool
SpecSession == InitSession /\ [][NextSession]_vars

-----------------------------------------------------------------------------
(* Claims about getComprehensiveChainStatus, under SpecStatus *)

UnknownVersion == JStr(<<"Unknown (RPC does not support ArbOS version queries)">>)

C2_FieldsByPosition ==
    /\ aggPc # "idle" => ver.pc # "idle" /\ bat.pc # "idle" /\ asr.pc # "idle"
                            /\ gas.pc # "idle"
    /\ aggPc = "done" =>
          /\ ver.pc = "done" /\ bat.pc = "done" /\ asr.pc = "done" /\ gas.pc = "done"
          /\ composite.arbosVersion = ver.ret
          /\ composite.batchPosting = bat.ret
          /\ composite.assertions = asr.ret
          /\ composite.gasStatus = gas.ret

\* gas settled first and the version last, with a failed batch-posting
\* sub-query in between
C2_Witness ==
    /\ aggPc = "done"
    /\ settled = <<4, 3, 2, 1>>
    /\ bat.failed /\ ~gas.failed /\ ~asr.failed /\ ~ver.failed

-----------------------------------------------------------------------------
(* Claims about the catalog cache, under SpecCache *)

\* a body with the expected shape: an object whose mainnet and testnet, where
\* present, are arrays
WellFormed(d) ==
    /\ d.kind = "object"
    /\ d.mainnet.k \in {"absent", "array"}
    /\ d.testnet.k \in {"absent", "array"}

\* the complete list one fetch produces: the core chains, then mainnet, then testnet
WholeLoad(d) == getCoreArbitrumChains \o d.mainnet.items \o d.testnet.items

\* C3: after a successful catalog load, a catalog operation issued within
\* CACHE_TTL of it issues no remote fetch: a request is sent only when no load
\* succeeded or the last one lies more than CACHE_TTL back.
C3_NoFetchWithinTtl ==
    [][\A p \in 1..NumCallers :
          (call[p].pc # "fetching" /\ call'[p].pc = "fetching") => ~LoadedWithinTtl]_vars

\* a catalog operation answered from the snapshot, exactly CACHE_TTL after the load
C3_Witness ==
    \E p \in 1..NumCallers :
        /\ call[p].pc = "done"
        /\ call[p].ret.t \in {"chain", "chains"}
        /\ call[p].resp = NoResp
        /\ lastOk.has /\ lastOk.by # p
        /\ now - lastOk.at = CACHE_TTL

\* C4 as stated: when the refresh of a loaded catalog fails, because the
\* fetch fails or the body is not of the expected shape, the operation that
\* ran the refresh ends in an error and the snapshot and its load time stay
\* those of the earlier load.
C4_FailedRefreshKeepsSnapshot ==
    \A p \in 1..NumCallers :
        (call[p].pc = "done" /\ call[p].resp # NoResp /\ call[p].had
             /\ ~WellFormed(call[p].resp)) =>
            /\ call[p].ret.t = "error"
            /\ lastOk.has /\ lastOk.resp # call[p].resp

\* C5: the snapshot is always either empty (nothing loaded) or the complete
\* list of one completed fetch, paired with that fetch's load time; every list
\* a reader gets is such a complete list.
C5_SnapshotIsWhole ==
    /\ IF lastOk.has
       THEN chainsData = WholeLoad(lastOk.resp) /\ lastFetched = lastOk.at
       ELSE chainsData = <<>> /\ lastFetched = 0
    /\ \A p \in 1..NumCallers :
          call[p].ret.t = "chains" =>
              \E d \in Responses : d.kind \in {"object", "text"}
                                      /\ call[p].ret.recs = WholeLoad(d)

\* a reader got the list while another caller's refresh was in flight
C5_Witness ==
    \E p, r \in 1..NumCallers :
        /\ call[p].pc = "fetching" /\ call[p].had
        /\ call[r].pc = "done" /\ call[r].ret.t = "chains"
        /\ call[r].ret.recs = chainsData
        /\ Len(chainsData) > Len(getCoreArbitrumChains)

C7_FirstLoadFailureRaises ==
    \A p \in 1..NumCallers :
        (call[p].pc = "done" /\ call[p].resp # NoResp /\ ~call[p].had
             /\ ~WellFormed(call[p].resp)) =>
            /\ call[p].ret.t = "error"
            /\ lastOk.has => lastOk.resp # call[p].resp

-----------------------------------------------------------------------------
(* Claims about name resolution, under SpecResolve *)

IsHttpUrl(q) == Len(q) > 0 /\ q[1] \in {"http://", "https://"}

\* C8: for every input that starts with "http://" or "https://" and every
\* state of the cache, resolveRpcUrl returns exactly that input and nothing
\* else, without any catalog lookup or fetch.
C8_UrlVerbatim ==
    \A p \in 1..NumCallers :
        (call[p].op = "resolveRpcUrl" /\ IsHttpUrl(call[p].q)) =>
            /\ call[p].pc = "done"
            /\ call[p].resp = NoResp
            /\ call[p].ret = [t |-> "url", url |-> call[p].q, recs |-> <<>>, idx |-> 0]

\* a URL was resolved while the catalog held a record of that very name
C8_Witness ==
    /\ call[1].pc = "done" /\ call[1].op = "resolveRpcUrl"
    /\ call[1].q = <<"http://", "x">>
    /\ call[1].ret.url = <<"http://", "x">>
    /\ \E i \in 1..Len(chainsData) : chainsData[i].name = call[1].q

\* the request of caller p read the snapshot: it needed no refresh, or its
\* refresh got a well-formed document
ReadSnapshot(p) ==
    /\ call[p].pc = "done"
    /\ call[p].op \in {"resolveRpcUrl", "findChainByName"}
    /\ call[p].resp = NoResp \/ WellFormed(call[p].resp)

\* C9 as stated: for every record of the loaded catalog, resolving the
\* record's own name returns that record's rpcUrl, and the lookup by that
\* name returns that record, bridge addresses included.
C9_OwnNameResolves ==
    \A p \in 1..NumCallers : \A i \in 1..Len(chainsData) :
        (call[p].pc = "done" /\ call[p].q = chainsData[i].name) =>
            /\ call[p].op = "resolveRpcUrl" =>
                  call[p].ret.t = "url" /\ call[p].ret.url = chainsData[i].rpcUrl
            /\ call[p].op = "findChainByName" =>
                  call[p].ret.recs = <<chainsData[i]>>

\* record i is the first of data with its name, up to case, and the name is
\* not empty and has no leading or trailing whitespace
FirstOfItsName(data, i) ==
    /\ data[i].name # <<>>
    /\ Trim(data[i].name) = data[i].name
    /\ \A j \in 1..(i - 1) : ToLowerCase(data[j].name) # ToLowerCase(data[i].name)

\* C9, amended: when the snapshot is read, for every record that is the first
\* with its name (ignoring case) and whose name is not empty and has no
\* surrounding whitespace, findChainByName of the record's own name returns
\* that record with its bridge addresses, and resolveRpcUrl of that name
\* returns the record's rpcUrl if the name does not start with "http://" or
\* "https://" and the rpcUrl is not empty.
C9_FirstOwnNameResolves ==
    \A p \in 1..NumCallers : \A i \in 1..Len(chainsData) :
        (ReadSnapshot(p) /\ call[p].q = chainsData[i].name
             /\ FirstOfItsName(chainsData, i)) =>
            /\ (call[p].op = "resolveRpcUrl" /\ ~IsHttpUrl(chainsData[i].name)
                    /\ chainsData[i].rpcUrl # <<>>) =>
                  call[p].ret.t = "url" /\ call[p].ret.url = chainsData[i].rpcUrl
            /\ call[p].op = "findChainByName" =>
                  call[p].ret.recs = <<chainsData[i]>> /\ call[p].ret.idx = i

\* "one" was resolved to the rpcUrl of the record named "one", which comes
\* after a record whose name contains "one"
C9_Witness ==
    /\ ReadSnapshot(1) /\ call[1].op = "resolveRpcUrl"
    /\ call[1].q = <<"one">>
    /\ \E i \in 3..Len(chainsData) :
          /\ chainsData[i] = COne
          /\ call[1].ret.url = COne.rpcUrl

Least(S) == CHOOSE x \in S : \A y \in S : x <= y

\* the record the priority rule selects for search text s: the first name
\* match, else the first slug match, else the first substring match, else 0
ByPriority(data, s) ==
    LET byName == {i \in 1..Len(data) : ToLowerCase(data[i].name) = ToLowerCase(s)}
        bySlug == {i \in 1..Len(data) :
                      data[i].slug.has /\ ToLowerCase(data[i].slug.s) = ToLowerCase(s)}
        byPart == {i \in 1..Len(data) :
                      \/ Includes(ToLowerCase(data[i].name), ToLowerCase(s))
                      \/ Includes(ToLowerCase(s), ToLowerCase(data[i].name))}
    IN  IF byName # {} THEN Least(byName)
        ELSE IF bySlug # {} THEN Least(bySlug)
        ELSE IF byPart # {} THEN Least(byPart)
        ELSE 0

\* C10 as stated: findChainByName returns the record the priority rule
\* selects for the query.
C10_PriorityOnQuery ==
    \A p \in 1..NumCallers :
        (ReadSnapshot(p) /\ call[p].op = "findChainByName") =>
            call[p].ret.idx = ByPriority(chainsData, call[p].q)

\* C10, amended: findChainByName returns the record the priority rule selects
\* for the query with its leading and trailing whitespace removed: the first
\* record equal by name ignoring case, even after earlier slug or substring
\* matches; else the first equal by slug, even after earlier substring
\* matches; else the first substring match in either direction; else null.
C10_PriorityOnTrimmedQuery ==
    \A p \in 1..NumCallers :
        (ReadSnapshot(p) /\ call[p].op = "findChainByName") =>
            LET i == ByPriority(chainsData, Trim(call[p].q))
            IN  /\ call[p].ret.idx = i
                /\ call[p].ret.recs = IF i = 0 THEN <<>> ELSE <<chainsData[i]>>
                /\ call[p].ret.t = IF i = 0 THEN "null" ELSE "chain"

\* "One" returned the fourth record, equal by name, although the third
\* matches by slug and the first by substring
C10_Witness ==
    /\ ReadSnapshot(1) /\ call[1].op = "findChainByName"
    /\ call[1].q = <<"One">>
    /\ Len(chainsData) = 4 /\ chainsData[3] = CSlug /\ chainsData[4] = COne
    /\ call[1].ret.idx = 4

\* some name of data contains text s or is contained in it, ignoring case
SomeNameOverlaps(data, s) ==
    \E i \in 1..Len(data) :
        \/ Includes(ToLowerCase(data[i].name), ToLowerCase(s))
        \/ Includes(ToLowerCase(s), ToLowerCase(data[i].name))

\* C11 as stated: with a loaded catalog and a query that is no URL,
\* resolution does not throw, and the lookup returns a record whenever some
\* catalog name contains the query or the query contains some catalog name.
C11_OverlapFindsRecord ==
    \A p \in 1..NumCallers :
        (call[p].pc = "done" /\ call[p].op \in {"resolveRpcUrl", "findChainByName"}
             /\ call[p].had /\ call[p].q # <<>> /\ ~IsHttpUrl(call[p].q)) =>
            /\ call[p].ret.t # "error"
            /\ (call[p].op = "findChainByName"
                    /\ SomeNameOverlaps(chainsData, call[p].q)) =>
                  call[p].ret.t = "chain"

\* C11, amended: resolveRpcUrl of a non-empty query never throws; and when
\* the snapshot is read (no refresh is needed, or the refresh gets a
\* well-formed document) findChainByName does not throw and returns a record
\* of the snapshot whenever some catalog name contains the query with its
\* surrounding whitespace removed, or that text contains some catalog name.
C11_TrimmedOverlapFindsRecord ==
    \A p \in 1..NumCallers :
        /\ (call[p].pc = "done" /\ call[p].op = "resolveRpcUrl" /\ call[p].q # <<>>
                /\ ~IsHttpUrl(call[p].q)) =>
              call[p].ret.t # "error"
        /\ (ReadSnapshot(p) /\ call[p].op = "findChainByName") =>
              /\ call[p].ret.t # "error"
              /\ SomeNameOverlaps(chainsData, Trim(call[p].q)) =>
                    /\ call[p].ret.t = "chain"
                    /\ call[p].ret.idx \in 1..Len(chainsData)
                    /\ call[p].ret.recs = <<chainsData[call[p].ret.idx]>>

\* "x-x" equals no name and no slug and is contained in no name; it contains
\* the name "X", and that record was returned
C11_Witness ==
    /\ ReadSnapshot(1) /\ call[1].op = "findChainByName"
    /\ call[1].q = <<"x", "-", "x">>
    /\ call[1].ret.recs = <<CX>>
    /\ \A i \in 1..Len(chainsData) :
          ~Includes(ToLowerCase(chainsData[i].name), call[1].q)

\* C12: resolveRpcUrl of a non-empty identifier never raises, whatever the
\* state of the catalog and the outcome of its refresh; when the identifier is
\* no URL and matches no record of the catalog by name, slug or substring, the
\* identifier itself is returned as the RPC URL.
C12_UnknownIdentifierReturned ==
    \A p \in 1..NumCallers :
        (call[p].pc = "done" /\ call[p].op = "resolveRpcUrl" /\ call[p].q # <<>>) =>
            /\ call[p].ret.t = "url"
            /\ ByPriority(chainsData, Trim(call[p].q)) = 0 => call[p].ret.url = call[p].q

\* "zzz" matched nothing in a loaded catalog and came back as the URL
C12_Witness ==
    /\ call[1].pc = "done" /\ call[1].op = "resolveRpcUrl"
    /\ call[1].q = <<"zzz">>
    /\ Len(chainsData) > Len(getCoreArbitrumChains)
    /\ call[1].ret = [t |-> "url", url |-> <<"zzz">>, recs |-> <<>>, idx |-> 0]

-----------------------------------------------------------------------------
(* Claims about the loaded catalog, under SpecCache *)

\* the snapshot is the one the finished request of caller p loaded and read
LoadedBy(p) ==
    /\ call[p].pc = "done"
    /\ lastOk.has /\ lastOk.by = p /\ lastOk.resp = call[p].resp

\* C13 as stated: no two records of a loaded snapshot share a chainId.
C13_ChainIdUnique ==
    \A i, j \in 1..Len(chainsData) :
        i # j => chainsData[i].chainId # chainsData[j].chainId

\* C14 as stated: findChainById with the chainId of a record loaded from an
\* entry of the remote document returns a record with that entry's chainId,
\* name and rpcUrl.
C14_RoundTripById ==
    \A p \in 1..NumCallers : \A i \in 1..Len(chainsData) :
        (LoadedBy(p) /\ call[p].op = "findChainById"
             /\ i > Len(getCoreArbitrumChains)
             /\ chainsData[i].chainId = call[p].id) =>
            /\ call[p].ret.t = "chain"
            /\ call[p].ret.recs[1].chainId = chainsData[i].chainId
            /\ call[p].ret.recs[1].name = chainsData[i].name
            /\ call[p].ret.recs[1].rpcUrl = chainsData[i].rpcUrl

\* C15: a load from a well-formed document does not fail, a missing mainnet or
\* testnet key counting as an empty list, and the snapshot it stores is the
\* canonical chains, then the mainnet entries, then the testnet entries, each
\* in document order.
C15_SnapshotOrder ==
    \A p \in 1..NumCallers :
        (call[p].pc = "done" /\ WellFormed(call[p].resp)) =>
            /\ call[p].ret.t # "error"
            /\ LoadedBy(p) =>
                  LET core == getCoreArbitrumChains
                      m == call[p].resp.mainnet.items
                      t == call[p].resp.testnet.items
                  IN  /\ Len(chainsData) = Len(core) + Len(m) + Len(t)
                      /\ \A k \in 1..Len(core) : chainsData[k] = core[k]
                      /\ \A k \in 1..Len(m) : chainsData[Len(core) + k] = m[k]
                      /\ \A k \in 1..Len(t) : chainsData[Len(core) + Len(m) + k] = t[k]
                      /\ call[p].resp.mainnet.k = "absent" => Len(m) = 0
                      /\ call[p].resp.testnet.k = "absent" => Len(t) = 0

\* one caller loaded a document without the mainnet key, the other then loaded
\* one with both lists; the snapshot holds the mainnet entry before the
\* testnet entry
C15_Witness ==
    \E p, r \in 1..NumCallers :
        /\ call[p].pc = "done" /\ call[p].resp = Doc(Absent, Arr(<<COne, CX>>))
        /\ call[p].ret.t # "error"
        /\ LoadedBy(r) /\ call[r].resp = Doc(Arr(<<CX>>), Arr(<<CTwin>>))
        /\ chainsData = getCoreArbitrumChains \o <<CX, CTwin>>

-----------------------------------------------------------------------------
(* Claims about the sub-queries, under SpecStatus *)

\* C16: when getLogs finds no batch-delivery log in the window, the
\* batch-posting sub-query ends there, without failing and without the block
\* lookup, the bridge counter read and the child-chain height, and returns
\* lastBatchPostedSecondsAgo = 999999, backlogSize = "0" and the 'no batches
\* found' summary.
C16_NoBatchesSentinel ==
    bat.found = "none" =>
        /\ bat.pc = "done" /\ ~bat.failed
        /\ bat.secondsAgo = 0 /\ bat.reported = 0
        /\ bat.ret.kind = "batch"
        /\ bat.ret.lastBatchPostedSecondsAgo = 999999
        /\ bat.ret.backlogSize = <<"0">>
        /\ bat.ret.lastBlockReported = <<"0">>
        /\ bat.ret.latestChildChainBlockNumber = <<"0">>
        /\ bat.ret.summary = <<"No batches found in recent blocks">>
        /\ results[2] = Fulfilled(bat.ret)

\* the window held no batch-delivery log and the composite carries the report
C16_Witness ==
    /\ aggPc = "done" /\ bat.found = "none"
    /\ composite.batchPosting.lastBatchPostedSecondsAgo = 999999
    /\ composite.batchPosting.summary = <<"No batches found in recent blocks">>

\* the answer to arb_getVersion is a failure: the transport is down, the HTTP
\* status is no success, the body is no JSON, or the body carries an error
RpcFailed(r) ==
    r.transport = "down" \/ ~r.httpOk \/ r.body \in {"notjson", "error"}

\* C17 as stated: the version sub-query never throws; arb_getVersion is
\* called only after the primary lookup has failed; and when both fail the
\* result is the "Unknown" literal.
C17_VersionFallback ==
    /\ ver.pc = "secondary" => ver.primary = "failed"
    /\ ver.rpc # NoRpc => ver.primary = "failed"
    /\ ver.pc = "done" =>
          /\ results[1].status = "fulfilled"
          /\ ver.primary = "ok" => ver.rpc = NoRpc
          /\ (ver.primary = "failed" /\ RpcFailed(ver.rpc)) =>
                ver.ret = VersionReport(UnknownVersion)

\* C18 as stated: for each event kind the report carries the node number of
\* the last log of that kind, and null exactly when there is no such log; the
\* gap is created minus confirmed when both exist and 0 otherwise.
C18_LatestAssertions ==
    (asr.pc = "done" /\ ~asr.failed) =>
        LET c == asr.created.logs
            f == asr.confirmed.logs
        IN  /\ asr.ret.latestCreatedAssertion =
                  IF Len(c) = 0 THEN JNull ELSE JStr(NumToString(c[Len(c)]))
            /\ asr.ret.latestConfirmedAssertion =
                  IF Len(f) = 0 THEN JNull ELSE JStr(NumToString(f[Len(f)]))
            /\ asr.ret.creationConfirmationGap =
                  IF Len(c) > 0 /\ Len(f) > 0
                  THEN NumToString(c[Len(c)] - f[Len(f)])
                  ELSE <<"0">>

-----------------------------------------------------------------------------
(* Claims about the account client, under SpecAccount *)

DecimalDigits == {"0", "1", "2", "3", "4", "5", "6", "7", "8", "9"}
IsDigits(str) == Len(str) > 0 /\ \A k \in 1..Len(str) : str[k] \in DecimalDigits
DigitValue(tok) == CHOOSE d \in 0..9 : Digit(d) = tok

RECURSIVE ValueOf(_)
ValueOf(ds) ==
    IF Len(ds) = 0 THEN 0
    ELSE 10 * ValueOf(SubSeq(ds, 1, Len(ds) - 1)) + DigitValue(ds[Len(ds)])

PointsOf(str) == {k \in 1..Len(str) : str[k] = "."}
IntegerPart(str) ==
    IF PointsOf(str) = {} THEN str ELSE SubSeq(str, 1, (CHOOSE k \in PointsOf(str) : TRUE) - 1)
FractionPart(str) ==
    IF PointsOf(str) = {} THEN <<>>
    ELSE SubSeq(str, (CHOOSE k \in PointsOf(str) : TRUE) + 1, Len(str))

\* an integer without a decimal point
PlainInteger(str) == IsDigits(str) /\ (Len(str) = 1 \/ str[1] # "0")

\* an integer, or an integer, a point and one to six digits not ending in 0
ShortDecimal(str) ==
    \/ PlainInteger(str)
    \/ /\ Cardinality(PointsOf(str)) = 1
       /\ PlainInteger(IntegerPart(str))
       /\ IsDigits(FractionPart(str))
       /\ Len(FractionPart(str)) <= 6
       /\ FractionPart(str)[Len(FractionPart(str))] # "0"

GotBalance ==
    /\ acct.pc = "done"
    /\ acct.rpc.transport = "up"
    /\ acct.rpc.body = "result"
    /\ acct.rpc.result.t \in {"hex", "hugehex"}

\* C19 as stated: getBalanceInEther of a balance that is an exact multiple of
\* 10^18 wei is the integer quotient written without a decimal point; of a
\* balance with a remainder it is a number with at most six decimal digits,
\* with trailing zeros and a dangling decimal point removed.
C19_BalanceInEtherText ==
    (GotBalance /\ acct.op = "getBalanceInEther") =>
        LET wei == acct.rpc.result
            str == acct.ret.s
        IN  /\ acct.ret.t = "ether"
            /\ (wei.t = "hex" /\ wei.n % UnitsPerEther = 0) =>
                  PlainInteger(str) /\ ValueOf(str) = wei.n \div UnitsPerEther
            /\ (wei.t = "hugehex" \/ wei.n % UnitsPerEther # 0) => ShortDecimal(str)

\* "0x" and 40 hex digits
IsHexAddress(address) == address = <<"0x", "hex40">>

\* C20 as stated: an account operation given a malformed address fails at
\* once: no request goes upstream for it, and it ends in an error.
C20_MalformedAddressFailsAtOnce ==
    (acct.pc # "idle" /\ ~IsHexAddress(acct.address)) =>
        /\ acct.pc = "done"
        /\ acct.rpc = NoAcctRpc
        /\ acct.ret = AcctThrew

\* C21 as stated, for the copy of the RPC utility in EthereumAccountClient:
\* the call raises when the response carries an error field and when the
\* transport answers a non-success HTTP status, and hands back the result
\* field only for a successful response without an error field.
C21_RpcUtilityRaises ==
    acct.pc = "done" =>
        /\ (acct.rpc.body = "error" \/ ~acct.rpc.httpOk) => acct.ret = AcctThrew
        /\ (acct.op = "getBalance" /\ acct.ret # AcctThrew) =>
              acct.rpc.httpOk /\ acct.rpc.body # "error" /\ acct.ret = AcctWei(acct.rpc.result)

-----------------------------------------------------------------------------
(* Claims about the node client, under SpecNode *)

\* the upstream call did not yield a result: no connection, a non-success
\* status, a body that is not JSON, or an error field
CallFailed(c) ==
    c.resp.transport = "down" \/ ~c.resp.httpOk \/ c.resp.body \in {"notjson", "error"}

SyncDone == node.pc = "done" /\ node.op = "getSyncStatus"

\* C22: getSyncStatus always ends in a result; when eth_syncing fails exactly
\* one eth_blockNumber call follows it; and when every call fails the result
\* is currentBlock 0, highestBlock 0, isSyncing false, syncProgress 0 with an
\* error message.
C22_SyncStatusNeverThrows ==
    /\ (node.op = "getSyncStatus" /\ Len(node.calls) >= 1 /\ CallFailed(node.calls[1])) =>
          /\ Len(node.calls) <= 2
          /\ node.pc = IF Len(node.calls) = 1 THEN "fallback" ELSE "done"
          /\ Len(node.calls) = 2 => node.calls[2].method = "eth_blockNumber"
    /\ SyncDone =>
          /\ node.ret.t = "sync"
          /\ (\A k \in 1..Len(node.calls) : CallFailed(node.calls[k])) =>
                /\ node.ret.currentBlock = Num(0)
                /\ node.ret.highestBlock = Num(0)
                /\ ~node.ret.isSyncing
                /\ node.ret.syncProgress = Num(0)
                /\ node.ret.error # "none"

\* eth_syncing and the eth_blockNumber that followed it both failed
C22_Witness ==
    /\ SyncDone
    /\ Len(node.calls) = 2
    /\ \A k \in 1..2 : CallFailed(node.calls[k])
    /\ node.ret.error = "debug API"

\* a >= b on JavaScript numbers: false when either is NaN
Geq(a, b) == ~a.nan /\ ~b.nan /\ a.num * b.den >= b.num * a.den

\* eth_syncing answered false and eth_blockNumber a quantity, or eth_syncing
\* answered an object that has currentBlock and highestBlock
SyncAnswered ==
    /\ SyncDone
    /\ Len(node.calls) = 2
    /\ \A k \in 1..2 : ~CallFailed(node.calls[k]) /\ node.calls[k].resp.body = "result"
    /\ LET syncing == node.calls[1].resp.result
       IN  \/ syncing.t = "false"
           \/ syncing.t = "object" /\ syncing.currentBlock.has /\ syncing.highestBlock.has

\* C23 as stated: a result of getSyncStatus made from such answers has
\* highestBlock >= currentBlock and a syncProgress between 0 and 100.
C23_SyncStatusRanges ==
    SyncAnswered =>
        /\ Geq(node.ret.highestBlock, node.ret.currentBlock)
        /\ Geq(node.ret.syncProgress, Num(0))
        /\ Geq(Num(100), node.ret.syncProgress)

\* C29 as stated: validateMessageNumber reports valid = false when the upstream
\* call succeeds with valid = false, valid = true only when the upstream
\* reports the message as valid, and valid = false with an error message when
\* the call fails.
C29_ValidateReportsVerdict ==
    (node.pc = "done" /\ node.op = "validateMessageNumber") =>
        LET c == node.calls[1]
        IN  /\ CallFailed(c) => ~node.ret.valid /\ node.ret.error # "none"
            /\ node.ret.valid <=>
                  (~CallFailed(c) /\ c.resp.body = "result" /\ c.resp.result.valid)

-----------------------------------------------------------------------------
(* Claims about the tool handlers, under SpecSession *)

\* a tool that resolves its endpoint has come back from resolveRpcUrl
Resolved ==
    /\ tool.name \in {"node_health", "comprehensive_chain_status"}
    /\ tool.pc \in {"resolved", "done"}

RollupOf(rec) ==
    IF rec.rollup # <<>> THEN rec.rollup
    ELSE IF rec.ethBridge.has THEN rec.ethBridge.rollup
    ELSE <<>>

\* C25 as stated: get_rollup_address returns the rollup address of every
\* resolved record that carries one, also when it sits in the bridge bundle,
\* and answers 'not available' only when the record has none.
C25_RollupAddress ==
    (tool.pc = "done" /\ tool.name = "get_rollup_address" /\ tool.info.idx # 0) =>
        LET address == RollupOf(tool.info.recs[1])
        IN  IF address = <<>> THEN tool.out.t = "not available"
            ELSE tool.out.t = "rollup" /\ tool.out.text = address

\* C28 as stated: when comprehensive_chain_status is given only a chainName
\* that names a record, both lookups read the same snapshot, and the primary
\* URL and the addresses passed on are those of that one record.
C28_StatusFromOneRecord ==
    (/\ tool.pc = "done"
     /\ tool.name = "comprehensive_chain_status"
     /\ tool.out.t = "status"
     /\ ~tool.rpcUrl.has
     /\ Truthy(tool.chainName)
     /\ tool.info.idx # 0) =>
        LET rec == tool.info.recs[1]
        IN  /\ tool.seen1 = tool.seen2
            /\ rec.rpcUrl # <<>> => tool.out.rpcUrl = rec.rpcUrl
            /\ tool.out.sequencerInboxAddress = rec.ethBridge.sequencerInbox
            /\ tool.out.bridgeAddress = rec.ethBridge.bridge
            /\ tool.out.rollupAddress = rec.ethBridge.rollup

-----------------------------------------------------------------------------
(* More claims about the catalog cache, under SpecCache *)

\* no load has succeeded, or the last one lies more than CACHE_TTL back
Stale == ~lastOk.has \/ now - lastOk.at > CACHE_TTL

-----------------------------------------------------------------------------
(* Claims about the query operations, under SpecResolve *)

\* C27: the record list and the load time change only when a fetch is
\* accepted, and then to the complete list of that fetch and the time of its
\* acceptance; a query answered without a fetch leaves both as they are, also
\* listChainNames, which sorts, and getAllChains, which hands out the list.
C27_QueriesReadOnly ==
    [][/\ (chainsData' # chainsData \/ lastFetched' # lastFetched) =>
             /\ lastOk' # lastOk
             /\ chainsData' = WholeLoad(lastOk'.resp)
             /\ lastFetched' = now
       /\ \A p \in 1..NumCallers :
             (call'[p] # call[p] /\ call'[p].pc = "done" /\ call'[p].resp = NoResp) =>
                 /\ chainsData' = chainsData /\ lastFetched' = lastFetched
                 /\ call'[p].op = "getAllChains" => call'[p].ret.recs = chainsData]_vars

\* listChainNames returned the names in another order than the snapshot
\* holds them, and the snapshot is still the list that was loaded
C27_Witness ==
    /\ call[1].pc = "done" /\ call[1].op = "listChainNames" /\ call[1].ret.t = "names"
    /\ Len(chainsData) >= 3
    /\ call[1].ret.url # JoinLines([i \in 1..Len(chainsData) |-> chainsData[i].name])
    /\ chainsData = WholeLoad(lastOk.resp)

\* C30 as stated: a name that is empty after trimming resolves to no record:
\* findChainByName returns null for it, and resolveRpcUrl hands back the
\* string it was given, not the URL of a catalog record.
C30_BlankNameResolvesNothing ==
    \A p \in 1..NumCallers :
        (call[p].pc = "done" /\ Trim(call[p].q) = <<>>) =>
            /\ call[p].op = "findChainByName" => call[p].ret.t \in {"null", "error"}
            /\ (call[p].op = "resolveRpcUrl" /\ call[p].q # <<>>) =>
                  call[p].ret = RetUrl(call[p].q)

=============================================================================
